---- MODULE Spec2Model ----
(***************************************************************************)
(* Model of the Strava synchronisation script (src/unnamed/part_000).      *)
(*                                                                         *)
(* One run of main() is a sequence of steps separated by the awaits of the *)
(* script: reading the persisted files, the credential exchange, the       *)
(* lifetime-totals fetch, the activity-list fetch followed by the          *)
(* synchronous merge and sort, the detail backfill loop, and the three     *)
(* persistence writes.  The persisted files survive from one run to the    *)
(* next; everything else is local to a run.                                *)
(*                                                                         *)
(* Three parts of the script are also modelled alone, each under its own   *)
(* specification over the same variables: the merge (SpecMerge), the stats *)
(* engine computeSportsStats (SpecStats) and the page loop of              *)
(* fetchActivities (SpecFetch).                                            *)
(*                                                                         *)
(* Representation.  A start date is the epoch second of the ISO text the   *)
(* remote sends (0 when the field is missing); a missing numeric field is  *)
(* Null; a missing text field is "".  Of the 22 fields of a stored record  *)
(* the model keeps the 8 the script reads again (identifier, sport, start, *)
(* distance, moving time, the two energy fields, detail_attempted); the    *)
(* other fields are copied by minimizeActivity exactly like distance.      *)
(* Distances are metres, times are seconds, and a formatted decimal is the *)
(* integer it denotes at its number of decimals.                           *)
(***************************************************************************)
EXTENDS Integers, Sequences, FiniteSets, TLC

\* ------------------------------------------------------------------ bounds
MaxRuns == 2          \* runs of the script in one behaviour
MaxLookups == 2       \* the per-identifier lookup history saturates here
MaxLen == 2           \* longest cached and fresh sequence given to the merge alone

\* ------------------------------------------------------- program constants
SafetyMarginSec == 60     \* newest - 60
DefaultDetailMax == 30    \* STRAVA_DETAIL_MAX || 30

Null == -1                \* null / undefined of a numeric field, an unset variable

\* --------------------------------------------------------- input universe
Ids == {1, 2}
StartDates == {40, 80}                \* epoch seconds of the remote's records
EnergyValues == {Null, 100}
DetailMaxEnv == {Null, 0, 1}         \* STRAVA_DETAIL_MAX
InitialAfterEnv == {Null, 40}        \* STRAVA_INITIAL_AFTER_EPOCH

Files == {"activities", "state", "outStats"}

VARIABLES
    \* persisted documents
    cacheFile,        \* activities.min.json: sequence of records
    stateFile,        \* state.json: lastSyncEpoch
    statsFile,        \* sports-stats.json
    env,              \* process environment
    \* one run of main()
    pc,
    cachedActivities,
    afterEpochFromState,
    afterEpoch,
    athleteId,
    athleteStats,
    fresh,
    merged,
    idx,              \* position of the backfill loop in merged (1-based)
    detailFetched,
    exitStatus,
    \* history of the run and of the remote calls
    runs,             \* runs started so far
    failedAt,         \* the step whose failure ended the run, or ""
    written,          \* files written by the current run
    detailCalls,      \* detail lookups issued by the current run
    lookups,          \* per identifier: detail lookups issued by all runs
    failedLookups,    \* records as they were left by a failed lookup in this run
    offered,          \* per identifier: the summary the activity list last sent
    answered,         \* per identifier: the detail endpoint's last answer
    calm,             \* this run's detail answers agree with the list's summaries
    quiet,            \* the run follows a successful run and the remote has
                      \* answered it nothing new or changed so far
    calls,            \* the remote calls and writes this run has issued, in order
    outstanding,      \* those issued and not yet settled
    \* inputs and result of the merge taken alone
    mCached, mFresh, mOut, mAgain, mPhase,
    \* inputs and result of the stats engine taken alone
    sBaseline, sActivities, sLifetime, sOut, sPhase,
    \* the page loop of fetchActivities taken alone
    fPage,            \* the loop variable `page`
    fOut,             \* the array `out`
    fPhase,           \* "loop", "returned" or "threw"
    fRequested,       \* page numbers requested so far, in request order
    fPages            \* the arrays the remote answered, in request order

runVars == <<pc, cachedActivities, afterEpochFromState, afterEpoch, athleteId,
             athleteStats, fresh, merged, idx, detailFetched, exitStatus>>
fileVars == <<cacheFile, stateFile, statsFile>>
histVars == <<runs, failedAt, written, detailCalls, lookups, failedLookups,
              offered, answered, calm, quiet>>
mergeVars == <<mCached, mFresh, mOut, mAgain, mPhase>>
statsVars == <<sBaseline, sActivities, sLifetime, sOut, sPhase>>
fetchVars == <<fPage, fOut, fPhase, fRequested, fPages>>
callVars == <<calls, outstanding>>
vars == <<fileVars, env, runVars, histVars, mergeVars, statsVars, fetchVars, callVars>>

\* ----------------------------------------------------------------- helpers
Range(s) == {s[i] : i \in 1..Len(s)}

RECURSIVE SeqSum(_)
SeqSum(s) == IF s = <<>> THEN 0 ELSE Head(s) + SeqSum(Tail(s))

Max(a, b) == IF a >= b THEN a ELSE b

\* round-half-up of n/d for n >= 0, d > 0 (Number.prototype.toFixed)
RoundDiv(n, d) == (2 * n + d) \div (2 * d)

\* ------------------------------------------------------ sport classification
\* (a.sport_type || a.type || '')
asSportType(a) ==
    IF a.sport_type # "" THEN a.sport_type
    ELSE IF "type" \in DOMAIN a THEN a.type ELSE ""

isRun(a) ==
    LET t == asSportType(a)
    IN  t = "Run" \/ t = "TrailRun" \/ t = "VirtualRun" \/ t = "Treadmill"

isRide(a) ==
    LET t == asSportType(a)
    IN  t = "Ride" \/ t = "VirtualRide" \/ t = "EBikeRide" \/ t = "GravelRide"

\* ------------------------------------------------------------ the minimizer
\* A raw activity of the remote has no detail_attempted field; the script's
\* `a.detail_attempted ?? false` then yields false.
minimizeActivity(a) ==
    [id               |-> a.id,
     sport_type       |-> IF a.sport_type # "" THEN a.sport_type ELSE a.type,
     start_date       |-> a.start_date,
     distance_m       |-> a.distance,
     moving_time_s    |-> a.moving_time,
     calories_kcal    |-> a.calories,
     kilojoules_kj    |-> a.kilojoules,
     detail_attempted |-> IF "detail_attempted" \in DOMAIN a
                          THEN a.detail_attempted ELSE FALSE]

\* ----------------------------------------------------------------- the merge
\* A JavaScript Map as the sequence of its <<key, value>> entries in insertion
\* order: set() on a present key replaces the value where it stands.
MapHas(m, k) == \E i \in 1..Len(m) : m[i][1] = k

\* an array push in place of Map.set
MapSetAppend(m, k, v) == Append(m, <<k, v>>)

MapSet(m, k, v) ==
    IF MapHas(m, k)
    THEN [i \in 1..Len(m) |-> IF m[i][1] = k THEN <<k, v>> ELSE m[i]]
    ELSE Append(m, <<k, v>>)

MapValues(m) == [i \in 1..Len(m) |-> m[i][2]]

\* the cache is not put into the map
SetAllCachedDropped(m, cached) == m

RECURSIVE SetAllCached(_, _)
SetAllCached(m, cached) ==
    IF cached = <<>> THEN m
    ELSE SetAllCached(MapSet(m, Head(cached).id, Head(cached)), Tail(cached))

\* the cached entry wins on conflict
RECURSIVE SetAllFreshCachedWins(_, _)
SetAllFreshCachedWins(m, items) ==
    IF items = <<>> THEN m
    ELSE SetAllFreshCachedWins(
            IF MapHas(m, Head(items).id) THEN m
            ELSE MapSet(m, Head(items).id, minimizeActivity(Head(items))),
            Tail(items))

RECURSIVE SetAllFresh(_, _)
SetAllFresh(m, items) ==
    IF items = <<>> THEN m
    ELSE SetAllFresh(MapSet(m, Head(items).id, minimizeActivity(Head(items))),
                     Tail(items))

\* new Date(a.start_date || 0).getTime(): milliseconds
DateGetTime(startDate) == (IF startDate # 0 THEN startDate ELSE 0) * 1000

\* Array.prototype.sort with (a, b) => db - da: stable, newest first
\* a sort that is not stable: of two equal dates the later element goes first
RECURSIVE InsertByDateUnstable(_, _)
InsertByDateUnstable(sorted, a) ==
    IF sorted = <<>> THEN <<a>>
    ELSE IF DateGetTime(Head(sorted).start_date) - DateGetTime(a.start_date) > 0
         THEN <<Head(sorted)>> \o InsertByDateUnstable(Tail(sorted), a)
         ELSE <<a>> \o sorted

RECURSIVE InsertByDate(_, _)
InsertByDate(sorted, a) ==
    IF sorted = <<>> THEN <<a>>
    ELSE IF DateGetTime(Head(sorted).start_date) - DateGetTime(a.start_date) >= 0
         THEN <<Head(sorted)>> \o InsertByDate(Tail(sorted), a)
         ELSE <<a>> \o sorted

RECURSIVE SortByDateDesc(_)
SortByDateDesc(s) ==
    IF s = <<>> THEN <<>>
    ELSE InsertByDate(SortByDateDesc(SubSeq(s, 1, Len(s) - 1)), s[Len(s)])

mergeActivities(cached, items) ==
    LET map == SetAllFresh(SetAllCached(<<>>, cached), items)
        kept == SelectSeq(MapValues(map), LAMBDA a : a.id # 0)
    IN  SortByDateDesc(kept)

freshIdsOf(items) == {items[i].id : i \in 1..Len(items)} \ {0}

\* ---------------------------------------------------------- the stats engine
\* A pace text is [m, sep, s, tail]: "6'05''/km" is m = 6, sep = "'", s = 5,
\* tail = "''/km"; the empty or missing text has sep = "".
PaceText(m, sep, s, tail) == [m |-> m, sep |-> sep, s |-> s, tail |-> tail]

\* the pace read with any separator between minutes and seconds
parsePaceAnySeparator(paceText) ==
    IF paceText.sep = "" THEN 0 ELSE paceText.m * 60 + paceText.s

\* paceText.match(/(\d+)'(\d+)''/)
parsePaceToSeconds(paceText) ==
    IF paceText.sep = "" THEN 0
    ELSE IF ~(paceText.sep = "'" /\ paceText.tail \in {"''", "''/km"}) THEN 0
    ELSE paceText.m * 60 + paceText.s

\* Number(x) || 0 of a stored numeric field
NumberOr0(x) == IF x = Null THEN 0 ELSE x

\* sum(arr, (a) => a.distance_m) and sum(arr, (a) => a.moving_time_s)
SumDistance(arr) == SeqSum([i \in 1..Len(arr) |-> NumberOr0(arr[i].distance_m)])
SumMovingTime(arr) == SeqSum([i \in 1..Len(arr) |-> NumberOr0(arr[i].moving_time_s)])

\* Lifetime totals: a missing figure is Null; a missing totals object, and a
\* null athleteStats, read like an object whose figures are all missing.
NoTotals == [distance |-> Null, moving_time |-> Null, count |-> Null]
NoAthleteStats == [all_run_totals |-> NoTotals, all_ride_totals |-> NoTotals]

\* The totals of computeSportsStats, held in metres and seconds: the divisions
\* by 1000 and 3600 are done once, where toFixedTrim prints the figure.
statsAllRun(lifetime) == lifetime.all_run_totals
statsAllRide(lifetime) == lifetime.all_ride_totals

\* both figures added: the lifetime distance and the local sum
runDistanceDoubleCounted(baseline, activities, lifetime) ==
    baseline.running.totalDistanceKm * 1000
      + NumberOr0(statsAllRun(lifetime).distance)
      + SumDistance(SelectSeq(activities, isRun))

runDistanceKm(baseline, activities, lifetime) ==
    baseline.running.totalDistanceKm * 1000
      + (IF statsAllRun(lifetime).distance # Null THEN statsAllRun(lifetime).distance
         ELSE SumDistance(SelectSeq(activities, isRun)))

baselinePaceSec(baseline) == parsePaceToSeconds(baseline.running.avgPaceText)

runTimeH(baseline, activities, lifetime) ==
    baseline.running.totalDistanceKm * baselinePaceSec(baseline)
      + (IF statsAllRun(lifetime).moving_time # Null
         THEN statsAllRun(lifetime).moving_time
         ELSE SumMovingTime(SelectSeq(activities, isRun)))

rideDistanceKm(activities, lifetime) ==
    IF statsAllRide(lifetime).distance # Null THEN statsAllRide(lifetime).distance
    ELSE SumDistance(SelectSeq(activities, isRide))

rideTimeH(activities, lifetime) ==
    IF statsAllRide(lifetime).moving_time # Null THEN statsAllRide(lifetime).moving_time
    ELSE SumMovingTime(SelectSeq(activities, isRide))

rideCount(activities, lifetime) ==
    IF statsAllRide(lifetime).count # Null THEN statsAllRide(lifetime).count
    ELSE Len(SelectSeq(activities, isRide))

\* the baseline's cycling distance added to the cycling total
computeSportsStatsCyclingBaseline(baseline, activities, lifetime, now) ==
    [generatedAt |-> now,
     running |-> [totalDistance |-> RoundDiv(runDistanceKm(baseline, activities, lifetime), 10),
                  totalTime     |-> RoundDiv(runTimeH(baseline, activities, lifetime), 360)],
     cycling |-> [totalDistance |->
                      RoundDiv(baseline.cycling.totalDistanceKm * 1000
                                 + rideDistanceKm(activities, lifetime), 10),
                  totalTime     |-> RoundDiv(rideTimeH(activities, lifetime), 36),
                  totalCount    |-> rideCount(activities, lifetime)]]

\* The total cards of the returned document.  Values are what toFixedTrim
\* prints: kilometres in hundredths, running hours in tenths, cycling hours in
\* hundredths.
computeSportsStats(baseline, activities, lifetime, now) ==
    [generatedAt |-> now,
     running |-> [totalDistance |-> RoundDiv(runDistanceKm(baseline, activities, lifetime), 10),
                  totalTime     |-> RoundDiv(runTimeH(baseline, activities, lifetime), 360)],
     cycling |-> [totalDistance |-> RoundDiv(rideDistanceKm(activities, lifetime), 10),
                  totalTime     |-> RoundDiv(rideTimeH(activities, lifetime), 36),
                  totalCount    |-> rideCount(activities, lifetime)]]

\* ------------------------------------------- the personal records (computed)
\* An object that is missing (baseline.running.best.farthest, the null of a
\* reduce or of a search) is NoEntry.  A time text is [m, sep, s]: "27.31" is
\* m = 27, sep = ".", s = 31; "30" is m = 30, sep = "", s = Null; a part that
\* parseInt cannot read, and the missing or empty text, is Null.
NoEntry == [absent |-> TRUE]
TimeText(m, sep, s) == [m |-> m, sep |-> sep, s |-> s]
NoTimeText == TimeText(Null, "", Null)
NoPaceText == PaceText(0, "", 0, "")

\* Math.max(min, Math.min(max, n))
clamp(n, min, max) == Max(min, IF max <= n THEN max ELSE n)

\* The calendar day of a start date (the script prints it as y.m.d in the
\* machine's time zone; the model counts days from the epoch in UTC).
formatDateYmdDot(dateLike) == (DateGetTime(dateLike) \div 1000) \div 86400

\* formatPaceSecPerKm(sec / km) with the distance in metres: null when the
\* quotient is not positive, else Math.round of it as m'ss''/km
formatPaceSecPerKm(sec, metres) ==
    IF sec <= 0 THEN NoPaceText
    ELSE LET total == RoundDiv(sec * 1000, metres)
         IN  PaceText(total \div 60, "'", total % 60, "''/km")

formatTimeMinTextFromSec(sec) ==
    IF sec <= 0 THEN NoTimeText
    ELSE TimeText(sec \div 60, ":", sec % 60)

parseBaselineTimeToSec(timeText) ==
    IF timeText.sep \in {":", "."}
    THEN IF timeText.m # Null /\ timeText.s # Null
         THEN timeText.m * 60 + timeText.s ELSE Null
    ELSE IF timeText.m # Null THEN timeText.m * 60 ELSE Null

\* toFixedTrim of a distance held in metres, as hundredths of a kilometre
toFixedTrim(metres, digits) ==
    IF digits = 1 THEN RoundDiv(metres, 100) * 10 ELSE RoundDiv(metres, 10)

\* runs.reduce((best, a) => km > (best?.km ?? 0) ? {a, km} : best, null)
RECURSIVE reduceFarthest(_, _)
reduceFarthest(arr, best) ==
    IF arr = <<>> THEN best
    ELSE LET a == Head(arr)
             bestKm == IF best = NoEntry THEN 0 ELSE NumberOr0(best.distance_m)
         IN  reduceFarthest(Tail(arr),
                            IF NumberOr0(a.distance_m) > bestKm THEN a ELSE best)

\* a tie promotes the local record as well
promotedOnTie(bestRunKm, baselineFarthestKm) == bestRunKm >= baselineFarthestKm

\* bestRunKm > baselineFarthestKm
promoted(bestRunKm, baselineFarthestKm) == bestRunKm > baselineFarthestKm

\* farthestValue and farthestSubtext; the value in hundredths of a kilometre
farthestRun(baseline, activities) ==
    LET baselineFarthest == baseline.running.best.farthest
        baselineFarthestKm ==
            IF baselineFarthest = NoEntry THEN 0 ELSE baselineFarthest.distanceKm * 1000
        bestRun == reduceFarthest(SelectSeq(activities, isRun), NoEntry)
        bestRunKm == IF bestRun = NoEntry THEN 0 ELSE NumberOr0(bestRun.distance_m)
    IN  IF bestRun # NoEntry /\ promoted(bestRunKm, baselineFarthestKm)
        THEN [value   |-> toFixedTrim(bestRunKm, IF bestRunKm >= 10000 THEN 1 ELSE 2),
              subtext |-> [pace |-> formatPaceSecPerKm(NumberOr0(bestRun.moving_time_s),
                                                       clamp(bestRunKm, 1, 1000000000)),
                           date |-> formatDateYmdDot(bestRun.start_date)]]
        ELSE [value   |-> toFixedTrim(baselineFarthestKm, 1),
              subtext |-> IF baselineFarthest = NoEntry
                          THEN [pace |-> NoPaceText, date |-> Null]
                          ELSE [pace |-> baselineFarthest.paceText,
                                date |-> baselineFarthest.dateText]]

Abs(n) == IF n < 0 THEN -n ELSE n

\* The loop of findBestForDistance, distances in metres.  The script compares
\* Math.abs(km - targetKm) with the tolerance in binary floating point; on
\* whole metres that differs from the exact comparison only at exactly the
\* tolerance, a distance the model's records do not take.
RECURSIVE findBestForDistance(_, _, _, _)
findBestForDistance(arr, targetKm, toleranceKm, best) ==
    IF arr = <<>> THEN best
    ELSE LET a == Head(arr)
             km == NumberOr0(a.distance_m)
             t == NumberOr0(a.moving_time_s)
             next == IF Abs(km - targetKm) > toleranceKm THEN best
                     ELSE IF t <= 0 THEN best
                     ELSE IF best = NoEntry \/ t < best.moving_time_s THEN a
                     ELSE best
         IN  findBestForDistance(Tail(arr), targetKm, toleranceKm, next)

\* a local time equal to the baseline's replaces it as well
bestChosenOnTie(best, baselineSec) ==
    IF best # NoEntry /\ baselineSec # Null
    THEN (IF best.moving_time_s <= baselineSec THEN best ELSE NoEntry)
    ELSE NoEntry

\* best5kChosen, best10kChosen
bestChosen(best, baselineSec) ==
    IF best # NoEntry /\ baselineSec # Null
    THEN (IF best.moving_time_s < baselineSec THEN best ELSE NoEntry)
    ELSE NoEntry

\* best5kValue / best5kSub and best10kValue / best10kSub for a baseline entry
bestCard(entry, activities, targetKm, toleranceKm) ==
    LET timeText == IF entry = NoEntry THEN NoTimeText ELSE entry.timeText
        paceText == IF entry = NoEntry THEN NoPaceText ELSE entry.paceText
        best == findBestForDistance(SelectSeq(activities, isRun),
                                    targetKm, toleranceKm, NoEntry)
        chosen == bestChosen(best, parseBaselineTimeToSec(timeText))
    IN  IF chosen # NoEntry
        THEN [value |-> formatTimeMinTextFromSec(chosen.moving_time_s),
              sub   |-> [pace |-> formatPaceSecPerKm(chosen.moving_time_s,
                                    clamp(NumberOr0(chosen.distance_m), 1, 1000000000)),
                         date |-> formatDateYmdDot(chosen.start_date)]]
        ELSE [value |-> timeText, sub |-> [pace |-> paceText, date |-> Null]]

best5k(baseline, activities) ==
    bestCard(baseline.running.best.best5k, activities, 5000, 80)

best10k(baseline, activities) ==
    bestCard(baseline.running.best.best10k, activities, 10000, 120)

\* ------------------------------------------------------------ the watermark
\* newest?.start_date ? Math.floor(new Date(newest.start_date).getTime() / 1000) : 0
newestEpochOf(m) ==
    IF m # <<>> /\ m[1].start_date # 0 THEN DateGetTime(m[1].start_date) \div 1000 ELSE 0

\* the margin added instead of subtracted
nextAfterEpochPlusMargin(m, fromState) ==
    IF newestEpochOf(m) > 0 THEN Max(0, newestEpochOf(m) + SafetyMarginSec)
    ELSE fromState

nextAfterEpochOf(m, fromState) ==
    IF newestEpochOf(m) > 0 THEN Max(0, newestEpochOf(m) - SafetyMarginSec)
    ELSE fromState

\* ------------------------------------------------------------ the remote side
\* What the activity list sends for an identifier: the sport, distance and
\* moving time are fixed per identifier; the start date and, for a ride, the
\* kilojoule figure vary.  The list never sends calories.
SportOf(id) == IF id = 1 THEN "Run" ELSE "Ride"
DistanceOf(id) == IF id = 1 THEN 5000 ELSE 20000
MovingTimeOf(id) == IF id = 1 THEN 1500 ELSE 3600

RawActivity(id, start, kcal, kj) ==
    [id |-> id, sport_type |-> SportOf(id), type |-> SportOf(id),
     start_date |-> start, distance |-> DistanceOf(id),
     moving_time |-> MovingTimeOf(id), calories |-> kcal, kilojoules |-> kj]

Summaries(id) ==
    {RawActivity(id, st, Null, kj) :
        st \in StartDates, kj \in (IF id = 1 THEN {Null} ELSE EnergyValues)}

\* The answer of the detail endpoint for an identifier: the record as the
\* remote holds it now, calories included when the remote has them.
DetailResponses(id) ==
    {RawActivity(id, st, kcal, Null) : st \in StartDates, kcal \in EnergyValues}

\* url.searchParams.set('after', ...): the list sends records that start
\* after the watermark, every record when there is none.
PassesAfter(item, after) == after > 0 => item.start_date > after

RECURSIVE OldestFirst(_)
OldestFirst(S) ==
    IF S = {} THEN <<>>
    ELSE LET a == CHOOSE x \in S :
                    \A y \in S : <<x.start_date, x.id>> = <<y.start_date, y.id>>
                              \/ x.start_date < y.start_date
                              \/ (x.start_date = y.start_date /\ x.id < y.id)
         IN  <<a>> \o OldestFirst(S \ {a})

\* The concatenated pages of one fetch: the records that pass the filter and
\* that the remote still lists, one summary per identifier, oldest first.
Passing(after) ==
    {x \in UNION {Summaries(id) : id \in Ids} : PassesAfter(x, after)}

Feeds(after) ==
    {OldestFirst(S) :
        S \in {T \in SUBSET Passing(after) : \A x, y \in T : x.id = y.id => x = y}}

AthleteTotals ==
    [all_run_totals  |-> [distance |-> 10000, moving_time |-> 3000, count |-> 2],
     all_ride_totals |-> [distance |-> 40000, moving_time |-> 7200, count |-> 2]]

\* baseline.json: the running totals, the three named records, and the
\* cycling distance the script never reads
BaselineOf(km, pace, best, cyclingKm) ==
    [running |-> [totalDistanceKm |-> km, avgPaceText |-> pace, best |-> best],
     cycling |-> [totalDistanceKm |-> cyclingKm]]

BestOf(farthest, entry5k, entry10k) ==
    [farthest |-> farthest, best5k |-> entry5k, best10k |-> entry10k]

Baseline ==
    BaselineOf(500, PaceText(6, "'", 0, "''"),
               BestOf([distanceKm |-> 10, paceText |-> PaceText(6, "'", 0, "''"),
                       dateText |-> 3],
                      [timeText |-> TimeText(25, ":", 0),
                       paceText |-> PaceText(5, "'", 0, "''")],
                      NoEntry),
               1455)

\* -------------------------------------------------------------------- state
NoStatsDoc == [generatedAt |-> Null]      \* sports-stats.json not written yet
NotOffered == [id |-> 0]                  \* the list has not sent this identifier

\* the stats engine and the page loop taken alone are not part of a run
StatsOff ==
    /\ sBaseline = NoEntry /\ sActivities = <<>> /\ sLifetime = NoEntry
    /\ sOut = NoEntry /\ sPhase = "off"

FetchOff ==
    /\ fPage = 1 /\ fOut = <<>> /\ fPhase = "off"
    /\ fRequested = <<>> /\ fPages = <<>>

\* Number(process.env.STRAVA_DETAIL_MAX || 30)
detailMax == IF env.STRAVA_DETAIL_MAX = Null THEN DefaultDetailMax
             ELSE env.STRAVA_DETAIL_MAX

Init ==
    /\ cacheFile = <<>>
    /\ stateFile = 0
    /\ statsFile = NoStatsDoc
    /\ env \in [STRAVA_DETAIL_MAX : DetailMaxEnv,
                STRAVA_INITIAL_AFTER_EPOCH : InitialAfterEnv]
    /\ pc = "idle"
    /\ cachedActivities = <<>>
    /\ afterEpochFromState = 0
    /\ afterEpoch = 0
    /\ athleteId = Null
    /\ athleteStats = NoAthleteStats
    /\ fresh = <<>>
    /\ merged = <<>>
    /\ idx = 1
    /\ detailFetched = 0
    /\ exitStatus = Null
    /\ runs = 0
    /\ failedAt = ""
    /\ written = {}
    /\ detailCalls = 0
    /\ lookups = [id \in Ids |-> 0]
    /\ failedLookups = {}
    /\ offered = [id \in Ids |-> NotOffered]
    /\ answered = [id \in Ids |-> NotOffered]
    /\ calm = TRUE
    /\ quiet = FALSE
    /\ calls = <<>>
    /\ outstanding = <<>>
    /\ mCached = <<>> /\ mFresh = <<>> /\ mOut = <<>> /\ mAgain = <<>> /\ mPhase = "off"
    /\ StatsOff
    /\ FetchOff

\* The awaited call `call` has settled: it is no longer outstanding.
Settled(call) ==
    IF outstanding # <<>> /\ Head(outstanding) = call THEN Tail(outstanding)
    ELSE outstanding

\* main(), up to the first remote call: the three reads and the watermark
Start ==
    /\ pc \in {"idle", "done", "exit1"}
    /\ runs < MaxRuns
    /\ pc' = "token"
    /\ runs' = runs + 1
    /\ cachedActivities' = cacheFile
    /\ afterEpochFromState' = stateFile
    /\ afterEpoch' = IF stateFile > 0 THEN stateFile
                     ELSE IF env.STRAVA_INITIAL_AFTER_EPOCH = Null THEN 0
                          ELSE env.STRAVA_INITIAL_AFTER_EPOCH
    /\ athleteId' = Null
    /\ fresh' = <<>>
    /\ merged' = <<>>
    /\ idx' = 1
    /\ detailFetched' = 0
    /\ exitStatus' = Null
    /\ failedAt' = ""
    /\ written' = {}
    /\ detailCalls' = 0
    /\ failedLookups' = {}
    /\ calm' = TRUE
    /\ quiet' = (exitStatus = 0 /\ calm)
    /\ calls' = <<"token">>
    /\ outstanding' = <<"token">>
    /\ UNCHANGED <<fileVars, env, athleteStats, lookups, offered, answered,
                   mergeVars, statsVars, fetchVars>>

\* the error is printed and the partial result is saved all the same
FailButSave(step) ==
    /\ pc' = "exit1"
    /\ exitStatus' = 1
    /\ failedAt' = step
    /\ cacheFile' = merged
    /\ written' = written \cup {"activities"}
    /\ UNCHANGED calls
    /\ outstanding' = <<>>
    /\ UNCHANGED <<stateFile, statsFile, env, cachedActivities, afterEpochFromState,
                   afterEpoch, athleteId, athleteStats, fresh, merged, idx,
                   detailFetched, runs, detailCalls, lookups, failedLookups, offered,
                   answered, calm, quiet, mergeVars, statsVars, fetchVars>>

\* main().catch: the error is printed and the process exits with status 1
Fail(step) ==
    /\ pc' = "exit1"
    /\ exitStatus' = 1
    /\ failedAt' = step
    /\ UNCHANGED calls
    /\ outstanding' = <<>>
    /\ UNCHANGED <<fileVars, env, cachedActivities, afterEpochFromState, afterEpoch,
                   athleteId, athleteStats, fresh, merged, idx, detailFetched,
                   runs, written, detailCalls, lookups, failedLookups, offered,
                   answered, calm, quiet, mergeVars, statsVars, fetchVars>>

RefreshTokenOk ==
    /\ pc = "token"
    /\ \E aid \in {Null, 7} :
          /\ athleteId' = aid
          \* fetchAthleteStats returns null without a request when there is no id
          /\ calls' = IF aid = Null THEN calls ELSE Append(calls, "athleteStats")
          /\ outstanding' = IF aid = Null THEN Settled("token")
                            ELSE Append(Settled("token"), "athleteStats")
    /\ pc' = "athleteStats"
    /\ UNCHANGED <<fileVars, env, cachedActivities, afterEpochFromState, afterEpoch,
                   athleteStats, fresh, merged, idx, detailFetched, exitStatus,
                   histVars, mergeVars, statsVars, fetchVars>>

\* a missing credential variable, a non-success status, or no access_token
RefreshTokenFail ==
    /\ pc = "token"
    /\ Fail("token")

FetchAthleteStatsOk ==
    /\ pc = "athleteStats"
    /\ \E got \in (IF athleteId = Null THEN {NoAthleteStats}
                   ELSE {NoAthleteStats, AthleteTotals}) :
          /\ athleteStats' = got
          /\ quiet' = (quiet /\ got = athleteStats)
    /\ pc' = "activities"
    /\ calls' = Append(calls, "activities")
    /\ outstanding' = Append(Settled("athleteStats"), "activities")
    /\ UNCHANGED <<fileVars, env, cachedActivities, afterEpochFromState, afterEpoch,
                   athleteId, fresh, merged, idx, detailFetched, exitStatus,
                   runs, failedAt, written, detailCalls, lookups, failedLookups,
                   offered, answered, calm, mergeVars, statsVars, fetchVars>>

FetchAthleteStatsFail ==
    /\ pc = "athleteStats"
    /\ athleteId # Null
    /\ Fail("athleteStats")

\* fetchActivities resolves; the merge and the sort follow without an await
FetchActivitiesOk ==
    /\ pc = "activities"
    /\ \E items \in Feeds(afterEpoch) :
          /\ fresh' = items
          /\ merged' = mergeActivities(cachedActivities, items)
          /\ quiet' = (quiet /\ \A i \in 1..Len(items) : offered[items[i].id] = items[i])
          /\ offered' = [id \in Ids |->
                           IF \E i \in 1..Len(items) : items[i].id = id
                           THEN CHOOSE x \in Range(items) : x.id = id
                           ELSE offered[id]]
    /\ idx' = 1
    /\ detailFetched' = 0
    /\ pc' = "detail"
    /\ UNCHANGED calls
    /\ outstanding' = Settled("activities")
    /\ UNCHANGED <<fileVars, env, cachedActivities, afterEpochFromState, afterEpoch,
                   athleteId, athleteStats, exitStatus, runs, failedAt, written,
                   detailCalls, lookups, failedLookups, answered, calm,
                   mergeVars, statsVars, fetchVars>>

\* a page answers with a non-success status
FetchActivitiesFail ==
    /\ pc = "activities"
    /\ Fail("activities")

\* a page's body is not an array
FetchActivitiesNotArray ==
    /\ pc = "activities"
    /\ Fail("notArray")

\* ------------------------------------------------------- the detail backfill
\* The for loop over merged is at position idx and has not hit its break.
InLoop ==
    /\ pc = "detail"
    /\ detailMax > 0
    /\ idx <= Len(merged)
    /\ detailFetched < detailMax

\* the test on this run's fresh identifiers left out
SkippedIgnoringFresh(a) == a.id = 0 \/ a.detail_attempted

\* the three `continue` tests that need no lookup
Skipped(a) == a.id = 0 \/ a.id \notin freshIdsOf(fresh) \/ a.detail_attempted

HasEnergy(a) == a.calories_kcal # Null \/ a.kilojoules_kj # Null

Bump(n) == IF n < MaxLookups THEN n + 1 ELSE n

\* the loop ends, by exhaustion, by the break, or because detailMax <= 0
BackfillEnd ==
    /\ pc = "detail"
    /\ ~InLoop
    /\ pc' = "writeActivities"
    /\ calls' = Append(calls, "write")
    /\ outstanding' = Append(outstanding, "write")
    /\ UNCHANGED <<fileVars, env, cachedActivities, afterEpochFromState, afterEpoch,
                   athleteId, athleteStats, fresh, merged, idx, detailFetched,
                   exitStatus, histVars, mergeVars, statsVars, fetchVars>>

BackfillSkip ==
    /\ InLoop
    /\ Skipped(merged[idx])
    /\ idx' = idx + 1
    /\ UNCHANGED <<fileVars, env, pc, cachedActivities, afterEpochFromState,
                   afterEpoch, athleteId, athleteStats, fresh, merged, detailFetched,
                   exitStatus, histVars, mergeVars, statsVars, fetchVars, callVars>>

\* the record already has an energy figure: marked, no lookup
BackfillMark ==
    /\ InLoop
    /\ ~Skipped(merged[idx])
    /\ HasEnergy(merged[idx])
    /\ merged' = [merged EXCEPT ![idx].detail_attempted = TRUE]
    /\ idx' = idx + 1
    /\ UNCHANGED <<fileVars, env, pc, cachedActivities, afterEpochFromState,
                   afterEpoch, athleteId, athleteStats, fresh, detailFetched,
                   exitStatus, histVars, mergeVars, statsVars, fetchVars, callVars>>

\* Object.assign(a, minimizeActivity(d)), the counter, then the finally
patchedBy(a, d) == [minimizeActivity(d) EXCEPT !.detail_attempted = TRUE]

\* no finally: a lookup that threw leaves the record unmarked
unmarkedAfterFailure(a) == a

\* the finally after a lookup that threw
markedAfterFailure(a) == [a EXCEPT !.detail_attempted = TRUE]

\* detailFetched += 1 sits in the try block, after the lookup has answered
countAfterSuccess(n) == n + 1
countAfterFailure(n) == n

\* the lookup without its await: the loop goes on while it is in flight
DetailIssueNoAwait ==
    /\ InLoop
    /\ ~Skipped(merged[idx])
    /\ ~HasEnergy(merged[idx])
    /\ idx' = idx + 1
    /\ detailCalls' = detailCalls + 1
    /\ lookups' = [lookups EXCEPT ![merged[idx].id] = Bump(@)]
    /\ calls' = Append(calls, "detail")
    /\ outstanding' = Append(outstanding, "detail")
    /\ UNCHANGED <<fileVars, env, pc, cachedActivities, afterEpochFromState,
                   afterEpoch, athleteId, athleteStats, fresh, merged, detailFetched,
                   exitStatus, runs, failedAt, written, failedLookups, offered,
                   answered, calm, quiet, mergeVars, statsVars, fetchVars>>

\* await fetchActivityDetail(accessToken, a.id): the request is sent
DetailIssue ==
    /\ InLoop
    /\ ~Skipped(merged[idx])
    /\ ~HasEnergy(merged[idx])
    /\ pc' = "detailWait"
    /\ detailCalls' = detailCalls + 1
    /\ lookups' = [lookups EXCEPT ![merged[idx].id] = Bump(@)]
    /\ calls' = Append(calls, "detail")
    /\ outstanding' = Append(outstanding, "detail")
    /\ UNCHANGED <<fileVars, env, cachedActivities, afterEpochFromState,
                   afterEpoch, athleteId, athleteStats, fresh, merged, idx,
                   detailFetched, exitStatus, runs, failedAt, written, failedLookups,
                   offered, answered, calm, quiet, mergeVars, statsVars, fetchVars>>

\* the lookup answers
DetailOk ==
    /\ pc = "detailWait"
    /\ \E d \in DetailResponses(merged[idx].id) :
          LET same == d.start_date = merged[idx].start_date
              known == answered[d.id] \in {NotOffered, d}
          IN  /\ merged' = [merged EXCEPT ![idx] = patchedBy(merged[idx], d)]
              /\ answered' = [answered EXCEPT ![d.id] = d]
              /\ calm' = (calm /\ same)
              /\ quiet' = (quiet /\ same /\ known)
    /\ detailFetched' = countAfterSuccess(detailFetched)
    /\ idx' = idx + 1
    /\ pc' = "detail"
    /\ UNCHANGED calls
    /\ outstanding' = Settled("detail")
    /\ UNCHANGED <<fileVars, env, cachedActivities, afterEpochFromState,
                   afterEpoch, athleteId, athleteStats, fresh, exitStatus, runs,
                   failedAt, written, detailCalls, lookups, failedLookups, offered,
                   mergeVars, statsVars, fetchVars>>

\* the lookup throws: the catch swallows it
DetailFail ==
    /\ pc = "detailWait"
    /\ merged' = [merged EXCEPT ![idx] = markedAfterFailure(merged[idx])]
    /\ detailFetched' = countAfterFailure(detailFetched)
    /\ idx' = idx + 1
    /\ pc' = "detail"
    /\ failedLookups' = failedLookups \cup {[merged[idx] EXCEPT !.detail_attempted = TRUE]}
    /\ UNCHANGED calls
    /\ outstanding' = Settled("detail")
    /\ UNCHANGED <<fileVars, env, cachedActivities, afterEpochFromState,
                   afterEpoch, athleteId, athleteStats, fresh, exitStatus, runs,
                   failedAt, written, detailCalls, lookups, offered, answered,
                   calm, quiet, mergeVars, statsVars, fetchVars>>

\* -------------------------------------------------------------- persistence
WriteActivities ==
    /\ pc = "writeActivities"
    /\ cacheFile' = merged
    /\ written' = written \cup {"activities"}
    /\ pc' = "writeState"
    /\ calls' = Append(calls, "write")
    /\ outstanding' = Append(Settled("write"), "write")
    /\ UNCHANGED <<stateFile, statsFile, env, cachedActivities, afterEpochFromState,
                   afterEpoch, athleteId, athleteStats, fresh, merged, idx,
                   detailFetched, exitStatus, runs, failedAt, detailCalls, lookups,
                   failedLookups, offered, answered, calm, quiet,
                   mergeVars, statsVars, fetchVars>>

WriteState ==
    /\ pc = "writeState"
    /\ stateFile' = nextAfterEpochOf(merged, afterEpochFromState)
    /\ written' = written \cup {"state"}
    /\ pc' = "writeStats"
    /\ calls' = Append(calls, "write")
    /\ outstanding' = Append(Settled("write"), "write")
    /\ UNCHANGED <<cacheFile, statsFile, env, cachedActivities, afterEpochFromState,
                   afterEpoch, athleteId, athleteStats, fresh, merged, idx,
                   detailFetched, exitStatus, runs, failedAt, detailCalls, lookups,
                   failedLookups, offered, answered, calm, quiet,
                   mergeVars, statsVars, fetchVars>>

\* writeJson(stateFile, ...) throws (mkdir or writeFile rejects), or the
\* process is stopped, after the cache was written: the state file keeps the
\* watermark the run read
WriteStateFail ==
    /\ pc = "writeState"
    /\ Fail("writeState")

\* writeJson(outStatsFile, ...) throws, or the process is stopped, after the
\* cache and the state were written
WriteStatsFail ==
    /\ pc = "writeStats"
    /\ Fail("writeStats")

\* the last write; main() returns and the process exits with status 0
WriteStats ==
    /\ pc = "writeStats"
    /\ statsFile' = computeSportsStats(Baseline, merged, athleteStats, runs)
    /\ written' = written \cup {"outStats"}
    /\ pc' = "done"
    /\ exitStatus' = 0
    /\ UNCHANGED calls
    /\ outstanding' = Settled("write")
    /\ UNCHANGED <<cacheFile, stateFile, env, cachedActivities, afterEpochFromState,
                   afterEpoch, athleteId, athleteStats, fresh, merged, idx,
                   detailFetched, runs, failedAt, detailCalls, lookups,
                   failedLookups, offered, answered, calm, quiet,
                   mergeVars, statsVars, fetchVars>>

Next ==
    \/ Start
    \/ RefreshTokenOk
    \/ RefreshTokenFail
    \/ FetchAthleteStatsOk
    \/ FetchAthleteStatsFail
    \/ FetchActivitiesOk
    \/ FetchActivitiesFail
    \/ FetchActivitiesNotArray
    \/ BackfillEnd
    \/ BackfillSkip
    \/ BackfillMark
    \/ DetailIssue
    \/ DetailOk
    \/ DetailFail
    \/ WriteActivities
    \/ WriteState
    \/ WriteStats

Spec == Init /\ [][Next]_vars

\* =================================================================== claims

\* The newest start epoch among the records of a sequence (0 when none has one).
RECURSIVE MaxEpoch(_)
MaxEpoch(s) ==
    IF s = <<>> THEN 0 ELSE Max(DateGetTime(Head(s).start_date) \div 1000, MaxEpoch(Tail(s)))

\* C1: across all runs a detail lookup is issued at most once per record
\* identifier; a record that an earlier run looked up (successfully or not) is
\* not looked up again when the list sends it again.
C1_OneLookupPerRecord == \A id \in Ids : lookups[id] <= 1

\* C2: within one run the number of detail lookups issued, failed ones
\* included, never exceeds the configured maximum, and is zero when the
\* maximum is 0.
C2_LookupsWithinMaximum == detailCalls <= detailMax

\* C3: a record persisted with detail_attempted true still has
\* detail_attempted true in the cache every later run persists, also when a
\* freshly fetched record with the same identifier supersedes it.
C3_FlagCarriedOver ==
    [][\A i \in 1..Len(cacheFile) :
          cacheFile[i].detail_attempted =>
             \A j \in 1..Len(cacheFile') :
                cacheFile'[j].id = cacheFile[i].id => cacheFile'[j].detail_attempted]_vars

\* The statistics document without its generatedAt stamp.
StatsBody(doc) == [f \in DOMAIN doc \ {"generatedAt"} |-> doc[f]]

\* C4: a successful run that follows a successful run, and in which the remote
\* sends no new or changed activity and the same lifetime totals, rewrites the
\* cache with what it held and the statistics with what they held apart from
\* generatedAt, whatever its detail lookups answer.
C4_QuietRunChangesNothing ==
    [][/\ (quiet /\ pc = "writeActivities" /\ pc' = "writeState")
            => cacheFile' = cacheFile
       /\ (quiet /\ pc = "writeStats" /\ pc' = "done")
            => StatsBody(statsFile') = StatsBody(statsFile)]_vars

\* C5: after a successful run the persisted watermark is at most the epoch of
\* the newest persisted record, and it is the watermark the run read from the
\* sync state when no merged record has a usable start timestamp.
C5_WatermarkSafe ==
    pc = "done" =>
       /\ MaxEpoch(cacheFile) > 0 => stateFile <= MaxEpoch(cacheFile)
       /\ MaxEpoch(merged) = 0 => stateFile = afterEpochFromState

C5_Witness ==
    /\ pc = "done"
    /\ Len(cacheFile) = 2
    /\ stateFile > 0
    /\ stateFile = MaxEpoch(cacheFile) - SafetyMarginSec

\* C6: a run that fails in the credential exchange, the lifetime-totals fetch
\* or the activity-list fetch (a failed page or a body that is no array) ends
\* with exit status 1, has written none of the three documents, and leaves the
\* cache and the sync state as it read them.
C6_FatalWritesNothing ==
    (pc = "exit1" /\ failedAt \in {"token", "athleteStats", "activities", "notArray"}) =>
       /\ exitStatus = 1
       /\ written = {}
       /\ cacheFile = cachedActivities
       /\ stateFile = afterEpochFromState

C6_Witness ==
    /\ pc = "exit1"
    /\ failedAt = "notArray"
    /\ cacheFile # <<>>
    /\ stateFile > 0
    /\ written = {}

\* C7: a failed detail lookup does not fail the run: the record is persisted
\* with detail_attempted true and its other fields as they were, the loop goes
\* on through the remaining eligible records (up to the break on the counter),
\* and the run writes its documents.
C7_FailedLookupIsolated ==
    failedLookups # {} =>
       /\ pc # "exit1"
       /\ pc \in {"writeState", "writeStats", "done"} =>
             \A r \in failedLookups : r \in Range(cacheFile)
       /\ pc = "writeActivities" =>
             \A i \in 1..Len(merged) :
                ~Skipped(merged[i]) => detailFetched >= detailMax
       /\ pc = "done" => written = Files

C7_Witness ==
    /\ pc = "done"
    /\ written = Files
    /\ Cardinality(failedLookups) = 1
    /\ detailFetched = 1
    /\ \A r \in failedLookups : r \in Range(cacheFile) /\ r.detail_attempted

\* -------------------------------------------------------- the merge taken alone
\* Lines 509-518 of main() as a function of any cached sequence and any fresh
\* sequence: identifiers may repeat, and may be empty (0), in both.
MergeIds == {0, 1, 2}
MergeStartDates == {0, 40, 80}

CachedRecords ==
    {[id |-> id, sport_type |-> "Run", start_date |-> st, distance_m |-> 5000,
      moving_time_s |-> 1500, calories_kcal |-> 100, kilojoules_kj |-> Null,
      detail_attempted |-> TRUE] : id \in MergeIds, st \in MergeStartDates}

FreshItems ==
    {[id |-> id, sport_type |-> "", type |-> "Run", start_date |-> st,
      distance |-> 5100, moving_time |-> 1500, calories |-> Null,
      kilojoules |-> Null] : id \in MergeIds, st \in MergeStartDates}

SeqsUpTo(S, n) == UNION {[1..k -> S] : k \in 0..n}

InitMerge ==
    /\ cacheFile = <<>>
    /\ stateFile = 0
    /\ statsFile = NoStatsDoc
    /\ env = [STRAVA_DETAIL_MAX |-> Null, STRAVA_INITIAL_AFTER_EPOCH |-> Null]
    /\ pc = "idle"
    /\ cachedActivities = <<>>
    /\ afterEpochFromState = 0
    /\ afterEpoch = 0
    /\ athleteId = Null
    /\ athleteStats = NoAthleteStats
    /\ fresh = <<>>
    /\ merged = <<>>
    /\ idx = 1
    /\ detailFetched = 0
    /\ exitStatus = Null
    /\ runs = 0
    /\ failedAt = ""
    /\ written = {}
    /\ detailCalls = 0
    /\ lookups = [id \in Ids |-> 0]
    /\ failedLookups = {}
    /\ offered = [id \in Ids |-> NotOffered]
    /\ answered = [id \in Ids |-> NotOffered]
    /\ calm = TRUE
    /\ quiet = FALSE
    /\ calls = <<>>
    /\ outstanding = <<>>
    /\ mCached \in SeqsUpTo(CachedRecords, MaxLen)
    /\ mFresh \in SeqsUpTo(FreshItems, MaxLen)
    /\ mOut = <<>>
    /\ mAgain = <<>>
    /\ mPhase = "input"
    /\ StatsOff
    /\ FetchOff

MergeFirst ==
    /\ mPhase = "input"
    /\ mOut' = mergeActivities(mCached, mFresh)
    /\ mPhase' = "merged"
    /\ UNCHANGED <<fileVars, env, runVars, histVars, mCached, mFresh, mAgain,
                   statsVars, fetchVars, callVars>>

\* the same fresh sequence merged into the result of the first merge
MergeAgain ==
    /\ mPhase = "merged"
    /\ mAgain' = mergeActivities(mOut, mFresh)
    /\ mPhase' = "again"
    /\ UNCHANGED <<fileVars, env, runVars, histVars, mCached, mFresh, mOut,
                   statsVars, fetchVars, callVars>>

NextMerge ==
    \/ MergeFirst
    \/ MergeAgain

SpecMerge == InitMerge /\ [][NextMerge]_vars

IdsOf(s) == {s[i].id : i \in 1..Len(s)}

LastWithId(s, id) == s[CHOOSE i \in 1..Len(s) :
                          s[i].id = id /\ \A j \in (i + 1)..Len(s) : s[j].id # id]

HasRepeat(s) == \E i, j \in 1..Len(s) : i # j /\ s[i].id = s[j].id

\* C8: for any cached sequence and any fresh sequence, also with repeated or
\* empty identifiers, no two records of the merged set share an identifier and
\* none has an empty identifier.
C8_IdentifiersUnique ==
    mPhase # "input" =>
       /\ \A i, j \in 1..Len(mOut) : i # j => mOut[i].id # mOut[j].id
       /\ \A i \in 1..Len(mOut) : mOut[i].id # 0

C8_Witness ==
    /\ mPhase = "merged"
    /\ HasRepeat(mCached)
    /\ 0 \in IdsOf(mFresh)
    /\ IdsOf(mCached) \cap IdsOf(mFresh) = {}
    /\ Len(mOut) = 2

\* C9: merging the same fresh sequence a second time into the result of the
\* merge returns that result, and merging the empty fresh sequence into a cache
\* whose identifiers are unique and non-empty returns the cache's records.
C9_MergeIdempotent ==
    /\ mPhase = "again" => mAgain = mOut
    /\ (mPhase # "input" /\ mFresh = <<>> /\ ~HasRepeat(mCached) /\ 0 \notin IdsOf(mCached))
          => (Range(mOut) = Range(mCached) /\ Len(mOut) = Len(mCached))

C9_Witness ==
    /\ mPhase = "again"
    /\ Len(mCached) = 2
    /\ Len(mFresh) = 2
    /\ Len(mOut) = 2
    /\ mOut[1].start_date = mOut[2].start_date
    /\ mOut[1].detail_attempted # mOut[2].detail_attempted

\* C10: in the merged set the record of an identifier the fresh sequence holds
\* is the minimized last fresh item with that identifier, with no field of the
\* cached record; the record of an identifier only the cache holds is the
\* cached record (the last one with that identifier).
C10_PureOverride ==
    mPhase # "input" =>
       \A id \in MergeIds \ {0} :
          LET got == {r \in Range(mOut) : r.id = id}
          IN  IF id \in IdsOf(mFresh)
              THEN got = {minimizeActivity(LastWithId(mFresh, id))}
              ELSE IF id \in IdsOf(mCached)
                   THEN got = {LastWithId(mCached, id)}
                   ELSE got = {}

C10_Witness ==
    /\ mPhase = "merged"
    /\ Len(mFresh) = 2
    /\ mFresh[1].id = 1 /\ mFresh[2].id = 1
    /\ mFresh[1] # mFresh[2]
    /\ IdsOf(mCached) = {1, 2}
    /\ Len(mOut) = 2

\* ======================================================= the stats engine alone
\* computeSportsStats applied to bounded inputs: a baseline document, a
\* sequence of stored records and the lifetime totals.
MaxRecords == 2       \* longest record sequence given to the stats engine alone

StatsRecord(id, sport, metres, sec, start) ==
    [id |-> id, sport_type |-> sport, start_date |-> start,
     distance_m |-> metres, moving_time_s |-> sec,
     calories_kcal |-> Null, kilojoules_kj |-> Null, detail_attempted |-> FALSE]

TenKmTrailRun == StatsRecord(4, "TrailRun", 10000, 3600, 345600)

StatsRecords ==
    {StatsRecord(1, "Run", 5000, 1500, 86400),
     StatsRecord(2, "Run", 5050, 1400, 172800),
     StatsRecord(3, "Run", 4900, 1000, 259200),
     TenKmTrailRun,
     StatsRecord(5, "Run", 10100, 3000, 432000),
     StatsRecord(6, "Run", 5000, 0, 518400),
     StatsRecord(7, "Ride", 20000, 3600, 604800),
     StatsRecord(8, "VirtualRide", 40000, 7200, 691200),
     StatsRecord(9, "Walk", 3000, 1800, 777600),
     StatsRecord(10, "Run", 5020, 1500, 864000),
     StatsRecord(11, "Run", 10000, 3300, 950400)}

SixMinutePace == PaceText(6, "'", 0, "''")

BaselinePaces ==
    {NoPaceText, SixMinutePace, PaceText(5, "'", 30, "''/km"),
     PaceText(6, ":", 0, ""), PaceText(6, ".", 0, "")}

BaselineBests ==
    {BestOf(NoEntry, NoEntry, NoEntry),
     BestOf([distanceKm |-> 10, paceText |-> SixMinutePace, dateText |-> 3],
            [timeText |-> TimeText(25, ":", 0), paceText |-> PaceText(5, "'", 0, "''")],
            [timeText |-> TimeText(55, ".", 0), paceText |-> PaceText(5, "'", 30, "''")]),
     BestOf([distanceKm |-> 21, paceText |-> SixMinutePace, dateText |-> 2],
            [timeText |-> TimeText(20, "", Null), paceText |-> PaceText(4, "'", 0, "''")],
            [timeText |-> TimeText(Null, ":", Null), paceText |-> NoPaceText]),
     BestOf([distanceKm |-> 5, paceText |-> NoPaceText, dateText |-> 1],
            [timeText |-> TimeText(27, ".", 31), paceText |-> PaceText(5, "'", 30, "''")],
            [timeText |-> TimeText(61, ":", 0), paceText |-> PaceText(6, "'", 6, "''")])}

BaselineKm == {0, 500}
BaselineCyclingKm == {0, 1455}

StatsBaselines ==
    {BaselineOf(km, pace, best, cyclingKm) :
        km \in BaselineKm, pace \in BaselinePaces,
        best \in BaselineBests, cyclingKm \in BaselineCyclingKm}

Lifetimes ==
    {NoAthleteStats, AthleteTotals,
     [all_run_totals  |-> [distance |-> 10000, moving_time |-> Null, count |-> Null],
      all_ride_totals |-> [distance |-> Null, moving_time |-> 7200, count |-> Null]],
     [all_run_totals  |-> [distance |-> 0, moving_time |-> 0, count |-> 0],
      all_ride_totals |-> [distance |-> 0, moving_time |-> 0, count |-> 0]]}

InitStats ==
    /\ cacheFile = <<>>
    /\ stateFile = 0
    /\ statsFile = NoStatsDoc
    /\ env = [STRAVA_DETAIL_MAX |-> Null, STRAVA_INITIAL_AFTER_EPOCH |-> Null]
    /\ pc = "idle"
    /\ cachedActivities = <<>>
    /\ afterEpochFromState = 0
    /\ afterEpoch = 0
    /\ athleteId = Null
    /\ athleteStats = NoAthleteStats
    /\ fresh = <<>>
    /\ merged = <<>>
    /\ idx = 1
    /\ detailFetched = 0
    /\ exitStatus = Null
    /\ runs = 0
    /\ failedAt = ""
    /\ written = {}
    /\ detailCalls = 0
    /\ lookups = [id \in Ids |-> 0]
    /\ failedLookups = {}
    /\ offered = [id \in Ids |-> NotOffered]
    /\ answered = [id \in Ids |-> NotOffered]
    /\ calm = TRUE
    /\ quiet = FALSE
    /\ calls = <<>>
    /\ outstanding = <<>>
    /\ mCached = <<>> /\ mFresh = <<>> /\ mOut = <<>> /\ mAgain = <<>> /\ mPhase = "off"
    /\ FetchOff
    /\ sBaseline \in StatsBaselines
    /\ sActivities \in SeqsUpTo(StatsRecords, MaxRecords)
    /\ sLifetime \in Lifetimes
    /\ sOut = NoEntry
    /\ sPhase = "input"

\* the document, and the record values the function computes beside it
ComputeStats ==
    /\ sPhase = "input"
    /\ sOut' = [doc      |-> computeSportsStats(sBaseline, sActivities, sLifetime, 0),
                farthest |-> farthestRun(sBaseline, sActivities),
                best5k   |-> best5k(sBaseline, sActivities),
                best10k  |-> best10k(sBaseline, sActivities)]
    /\ sPhase' = "computed"
    /\ UNCHANGED <<fileVars, env, runVars, histVars, mergeVars, fetchVars, callVars,
                   sBaseline, sActivities, sLifetime>>

NextStats == ComputeStats

SpecStats == InitStats /\ [][NextStats]_vars

\* the indices of the records classified as running, as cycling
RunIndices(arr) == {i \in 1..Len(arr) : isRun(arr[i])}
RideIndices(arr) == {i \in 1..Len(arr) : isRide(arr[i])}

RECURSIVE SumAt(_, _, _)
SumAt(arr, S, field) ==
    IF S = {} THEN 0
    ELSE LET i == CHOOSE x \in S : TRUE
         IN  NumberOr0(arr[i][field]) + SumAt(arr, S \ {i}, field)

RunTotals == sLifetime.all_run_totals
RideTotals == sLifetime.all_ride_totals

PaceAsWritten(p) ==
    IF p.sep = "'" /\ p.tail \in {"''", "''/km"} THEN p.m * 60 + p.s ELSE 0

C12_RunningTotalDistance ==
    sPhase = "computed" =>
        /\ sOut.doc.running.totalDistance =
              RoundDiv(sBaseline.running.totalDistanceKm * 1000
                       + (IF RunTotals.distance # Null THEN RunTotals.distance
                          ELSE SumAt(sActivities, RunIndices(sActivities), "distance_m")),
                       10)
        /\ RunTotals.distance # Null =>
              sOut.doc.running.totalDistance =
                  computeSportsStats(sBaseline, <<>>, sLifetime, 0).running.totalDistance

C12_Witness ==
    /\ sPhase = "computed"
    /\ RunTotals.distance = 10000
    /\ sBaseline.running.totalDistanceKm = 500
    /\ Cardinality(RunIndices(sActivities)) = 2
    /\ sOut.doc.running.totalDistance = 51000

\* C13: each cycling total is the lifetime cycling figure when it is reported
\* and the local sum over the cycling records otherwise, and it is the same
\* whatever distances the baseline document holds.
C13_CyclingTotals ==
    sPhase = "computed" =>
        /\ sOut.doc.cycling.totalDistance =
              RoundDiv(IF RideTotals.distance # Null THEN RideTotals.distance
                       ELSE SumAt(sActivities, RideIndices(sActivities), "distance_m"), 10)
        /\ sOut.doc.cycling.totalTime =
              RoundDiv(IF RideTotals.moving_time # Null THEN RideTotals.moving_time
                       ELSE SumAt(sActivities, RideIndices(sActivities), "moving_time_s"), 36)
        /\ sOut.doc.cycling.totalCount =
              (IF RideTotals.count # Null THEN RideTotals.count
               ELSE Cardinality(RideIndices(sActivities)))
        /\ \A km \in BaselineKm, cyclingKm \in BaselineCyclingKm :
              computeSportsStats(BaselineOf(km, sBaseline.running.avgPaceText,
                                            sBaseline.running.best, cyclingKm),
                                 sActivities, sLifetime, 0).cycling
                = sOut.doc.cycling

C13_Witness ==
    /\ sPhase = "computed"
    /\ sBaseline.cycling.totalDistanceKm = 1455
    /\ sBaseline.running.totalDistanceKm = 500
    /\ RideTotals.distance = Null
    /\ RideTotals.moving_time = 7200
    /\ Cardinality(RideIndices(sActivities)) = 2
    /\ sOut.doc.cycling.totalDistance = 6000
    /\ sOut.doc.cycling.totalCount = 2

\* the greatest distance among the records at the indices S (0 when S is empty)
MaxDistanceAt(arr, S) ==
    IF S = {} THEN 0
    ELSE LET i == CHOOSE x \in S :
                    \A y \in S : NumberOr0(arr[y].distance_m) <= NumberOr0(arr[x].distance_m)
         IN  NumberOr0(arr[i].distance_m)

BaselineFarthestMetres ==
    IF sBaseline.running.best.farthest = NoEntry THEN 0
    ELSE sBaseline.running.best.farthest.distanceKm * 1000

Candidates(arr, target, tolerance) ==
    {i \in RunIndices(arr) :
        /\ Abs(NumberOr0(arr[i].distance_m) - target) <= tolerance
        /\ NumberOr0(arr[i].moving_time_s) > 0}

MinTimeAt(arr, S) ==
    LET i == CHOOSE x \in S : \A y \in S : arr[x].moving_time_s <= arr[y].moving_time_s
    IN  arr[i].moving_time_s

\* the statement of C20 for one baseline entry and the value computed for it
BestKept(entry, card) ==
    /\ card.value = (IF entry = NoEntry THEN NoTimeText ELSE entry.timeText)
    /\ card.sub.pace = (IF entry = NoEntry THEN NoPaceText ELSE entry.paceText)
    /\ card.sub.date = Null

BestReplaced(arr, S, card) ==
    \E i \in S :
        /\ arr[i].moving_time_s = MinTimeAt(arr, S)
        /\ card.value = TimeText(arr[i].moving_time_s \div 60, ":", arr[i].moving_time_s % 60)
        /\ card.sub.date = arr[i].start_date \div 86400

BestAsStated(entry, target, tolerance, card) ==
    LET S == Candidates(sActivities, target, tolerance)
        baselineSec == IF entry = NoEntry THEN Null
                       ELSE parseBaselineTimeToSec(entry.timeText)
    IN  IF S # {} /\ baselineSec # Null /\ MinTimeAt(sActivities, S) < baselineSec
        THEN BestReplaced(sActivities, S, card)
        ELSE BestKept(entry, card)

WritingOrDone == pc \in {"writeState", "writeStats", "done"}

\* C15: once a run has written the cache, every non-empty identifier of the
\* cache the run read is in the written cache, and the written cache has at
\* least as many records as the one read.
C15_CacheAppendOnly ==
    WritingOrDone =>
        /\ (IdsOf(cachedActivities) \ {0}) \subseteq IdsOf(cacheFile)
        /\ Len(cacheFile) >= Len(cachedActivities)

\* a second run whose list sends only a record the cache did not hold
C15_Witness ==
    /\ pc = "done"
    /\ Len(cachedActivities) = 1
    /\ Len(fresh) = 1
    /\ fresh[1].id \notin IdsOf(cachedActivities)
    /\ Len(cacheFile) = 2

SortedDesc(s) ==
    \A i, j \in 1..Len(s) : i < j => s[i].start_date >= s[j].start_date

\* C16: the record set a run persists, which is the set whose first record
\* gives the watermark, is sorted by start timestamp descending, also after
\* the detail backfill has overwritten records with their detail responses.
C16_PersistedSorted ==
    /\ SortedDesc(cacheFile)
    /\ pc \in {"writeActivities", "writeState", "writeStats"} => SortedDesc(merged)

\* the place of a call in the order of main(): the credential exchange, the
\* lifetime-totals fetch, the activity-list fetch, the detail lookups, the writes
CallRank(call) ==
    CASE call = "token" -> 1
      [] call = "athleteStats" -> 2
      [] call = "activities" -> 3
      [] call = "detail" -> 4
      [] OTHER -> 5

\* C18: in every run at most one call is outstanding, and the calls are issued
\* in the order credential exchange, lifetime-totals fetch (when there is one),
\* activity-list fetch, detail lookups, persistence writes: each is issued
\* when the one before it has settled, so the credential exchange completes
\* before the totals and list fetches, the list fetch before the first detail
\* lookup, and every detail lookup before the first write.
C18_CallsInOrder ==
    /\ Len(outstanding) <= 1
    /\ outstanding # <<>> => calls # <<>> /\ outstanding[1] = calls[Len(calls)]
    /\ calls # <<>> => calls[1] = "token"
    /\ \A j \in 2..Len(calls) :
          /\ CallRank(calls[j - 1]) <= CallRank(calls[j])
          /\ calls[j] # "token"
          /\ calls[j] \in {"detail", "write"} => CallRank(calls[j - 1]) >= 3

C18_Witness ==
    /\ pc = "done"
    /\ outstanding = <<>>
    /\ calls = <<"token", "athleteStats", "activities", "detail", "detail",
                 "write", "write", "write">>

\* what C19 says of one step
BackfillFrameStep ==
    pc \in {"detail", "detailWait"} =>
        /\ Len(merged') = Len(merged)
        /\ \A i \in 1..Len(merged) :
              /\ (merged[i].id \notin freshIdsOf(fresh) \/ merged[i].detail_attempted)
                    => merged'[i] = merged[i]
              /\ HasEnergy(merged[i])
                    => merged'[i] \in {merged[i],
                                       [merged[i] EXCEPT !.detail_attempted = TRUE]}
        /\ (Len(calls') > Len(calls) /\ calls'[Len(calls')] = "detail")
              => /\ merged[idx].id \in freshIdsOf(fresh)
                 /\ ~merged[idx].detail_attempted
                 /\ ~HasEnergy(merged[idx])

\* C19: a step of the backfill loop leaves unchanged every record whose
\* identifier is not in this run's fresh set and every record already marked
\* detail_attempted, changes at most detail_attempted (to true) of a record
\* that has a calorie or kilojoule value, and issues a lookup for none of them.
C19_BackfillFrame == [][BackfillFrameStep]_vars

\* the loop has passed a cached record the list did not send and a fresh
\* record that has kilojoules, and has looked up nothing
C19_Witness ==
    /\ pc = "detail"
    /\ Len(merged) = 2
    /\ idx = 3
    /\ \E i \in 1..2 : merged[i].id \notin freshIdsOf(fresh) /\ ~HasEnergy(merged[i])
                       /\ ~merged[i].detail_attempted
    /\ \E i \in 1..2 : merged[i].id \in freshIdsOf(fresh) /\ HasEnergy(merged[i])
                       /\ merged[i].detail_attempted
    /\ detailCalls = 0

\* ==================================================== fetchActivities alone
\* The page loop of fetchActivities, one request per step.  An item is
\* <<page, position>>; the remote answers a page with any of PageLengths
\* items, or with more than per_page items on one of the first MaxOddPages
\* pages, or with a non-success status, or with a body that is no array.
per_page == 200
maxPages == 20

MaxOddPages == 2      \* pages on which the remote may send more than per_page items

PageLengths == {0, 1, per_page - 1, per_page}
OddLength == per_page + 1

Page(p, n) == [i \in 1..n |-> <<p, i>>]

AnswersTo(p) ==
    {Page(p, n) : n \in PageLengths \cup (IF p <= MaxOddPages THEN {OddLength} ELSE {})}

InitFetch ==
    /\ cacheFile = <<>>
    /\ stateFile = 0
    /\ statsFile = NoStatsDoc
    /\ env = [STRAVA_DETAIL_MAX |-> Null, STRAVA_INITIAL_AFTER_EPOCH |-> Null]
    /\ pc = "idle"
    /\ cachedActivities = <<>>
    /\ afterEpochFromState = 0
    /\ afterEpoch = 0
    /\ athleteId = Null
    /\ athleteStats = NoAthleteStats
    /\ fresh = <<>>
    /\ merged = <<>>
    /\ idx = 1
    /\ detailFetched = 0
    /\ exitStatus = Null
    /\ runs = 0
    /\ failedAt = ""
    /\ written = {}
    /\ detailCalls = 0
    /\ lookups = [id \in Ids |-> 0]
    /\ failedLookups = {}
    /\ offered = [id \in Ids |-> NotOffered]
    /\ answered = [id \in Ids |-> NotOffered]
    /\ calm = TRUE
    /\ quiet = FALSE
    /\ calls = <<>>
    /\ outstanding = <<>>
    /\ mCached = <<>> /\ mFresh = <<>> /\ mOut = <<>> /\ mAgain = <<>> /\ mPhase = "off"
    /\ StatsOff
    /\ fPage = 1
    /\ fOut = <<>>
    /\ fPhase = "loop"
    /\ fRequested = <<>>
    /\ fPages = <<>>

\* the loop goes on until a page comes back empty
stopsOnEmpty(arr) == Len(arr) = 0

\* if (arr.length < per_page) break
stopsAfter(arr) == Len(arr) < per_page

\* a page is requested and answers with an array
FetchPageOk ==
    /\ fPhase = "loop"
    /\ fPage <= maxPages
    /\ \E arr \in AnswersTo(fPage) :
          /\ fPages' = Append(fPages, arr)
          /\ fOut' = fOut \o arr
          /\ IF stopsAfter(arr)
             THEN fPhase' = "returned" /\ fPage' = fPage
             ELSE fPhase' = "loop" /\ fPage' = fPage + 1
    /\ fRequested' = Append(fRequested, fPage)
    /\ UNCHANGED <<fileVars, env, runVars, histVars, mergeVars, statsVars, callVars>>

\* if (!res.ok) throw
FetchPageFail ==
    /\ fPhase = "loop"
    /\ fPage <= maxPages
    /\ fRequested' = Append(fRequested, fPage)
    /\ fPhase' = "threw"
    /\ UNCHANGED <<fileVars, env, runVars, histVars, mergeVars, statsVars, callVars,
                   fPage, fOut, fPages>>

\* if (!Array.isArray(arr)) throw
FetchPageNotArray ==
    /\ fPhase = "loop"
    /\ fPage <= maxPages
    /\ fRequested' = Append(fRequested, fPage)
    /\ fPhase' = "threwNotArray"
    /\ UNCHANGED <<fileVars, env, runVars, histVars, mergeVars, statsVars, callVars,
                   fPage, fOut, fPages>>

\* page <= maxPages is false: the loop ends and out is returned
FetchReturn ==
    /\ fPhase = "loop"
    /\ fPage > maxPages
    /\ fPhase' = "returned"
    /\ UNCHANGED <<fileVars, env, runVars, histVars, mergeVars, statsVars, callVars,
                   fPage, fOut, fRequested, fPages>>

NextFetch ==
    \/ FetchPageOk
    \/ FetchPageFail
    \/ FetchPageNotArray
    \/ FetchReturn

\* every request the function awaits is answered, and a step of the function
\* that can run does run
SpecFetch == InitFetch /\ [][NextFetch]_vars /\ WF_vars(NextFetch)

RECURSIVE Flatten(_)
Flatten(ss) == IF ss = <<>> THEN <<>> ELSE Head(ss) \o Flatten(Tail(ss))

FetchInOrder ==
    /\ fRequested = [i \in 1..Len(fRequested) |-> i]
    /\ Len(fRequested) <= maxPages
    /\ \A i \in 1..(Len(fRequested) - 1) :
          i <= Len(fPages) /\ Len(fPages[i]) >= per_page
    /\ fPhase = "returned" =>
          /\ Len(fPages) = Len(fRequested)
          /\ fOut = Flatten(fPages)
          /\ \/ Len(fRequested) = maxPages
             \/ fPages # <<>> /\ Len(fPages[Len(fPages)]) < per_page

\* C17: the fetcher requests pages 1, 2, ... in order, requests no page after
\* the first one that answers fewer than 200 items, issues at most 20 requests,
\* returns the concatenation of the pages in request order, and always ends,
\* by returning or by throwing.
C17_FetcherTerminates == []FetchInOrder /\ <>(fPhase # "loop")

\* twenty pages of at least 200 items each: the ceiling ends the loop
C17_Witness ==
    /\ fPhase = "returned"
    /\ Len(fRequested) = maxPages
    /\ Len(fPages[maxPages]) = per_page
    /\ Len(fPages[1]) = OddLength
    /\ Len(fOut) = maxPages * per_page + 1

\* =============================================== claims on the watermark
\* The persisted state a run read is consistent: the watermark is no greater
\* than the newest cached record's epoch minus the margin (an empty cache goes
\* with no watermark).
ConsistentAtStart ==
    IF cachedActivities = <<>> THEN afterEpochFromState = 0
    ELSE afterEpochFromState <= MaxEpoch(cachedActivities) - SafetyMarginSec

\* C21: a successful run that started from a consistent persisted state has
\* persisted a watermark no smaller than the one it read.
C21_WatermarkNeverDecreases ==
    (pc \in {"writeStats", "done"} /\ ConsistentAtStart)
        => stateFile >= afterEpochFromState

\* ============================================ runs that fail between the writes
\* A start epoch later than every start the remote holds now: a record the
\* last run cached with this start has been moved back on the remote since.
LaterStart == 120

\* What an earlier successful run left behind: nothing, or the run #1 as the
\* list sent it when it started at LaterStart, not looked up yet, with the
\* watermark that run derived from it.
PersistedCaches ==
    {<<>>, <<minimizeActivity(RawActivity(1, LaterStart, Null, Null))>>}

InitCrash ==
    /\ cacheFile \in PersistedCaches
    /\ stateFile = nextAfterEpochOf(cacheFile, 0)
    /\ statsFile = NoStatsDoc
    /\ env \in [STRAVA_DETAIL_MAX : DetailMaxEnv,
                STRAVA_INITIAL_AFTER_EPOCH : InitialAfterEnv]
    /\ pc = "idle"
    /\ cachedActivities = <<>>
    /\ afterEpochFromState = 0
    /\ afterEpoch = 0
    /\ athleteId = Null
    /\ athleteStats = NoAthleteStats
    /\ fresh = <<>>
    /\ merged = <<>>
    /\ idx = 1
    /\ detailFetched = 0
    /\ exitStatus = Null
    /\ runs = 0
    /\ failedAt = ""
    /\ written = {}
    /\ detailCalls = 0
    /\ lookups = [id \in Ids |-> 0]
    /\ failedLookups = {}
    /\ offered = [id \in Ids |-> NotOffered]
    /\ answered = [id \in Ids |-> NotOffered]
    /\ calm = TRUE
    /\ quiet = FALSE
    /\ calls = <<>>
    /\ outstanding = <<>>
    /\ mCached = <<>> /\ mFresh = <<>> /\ mOut = <<>> /\ mAgain = <<>> /\ mPhase = "off"
    /\ StatsOff
    /\ FetchOff

NextCrash ==
    \/ Next
    \/ WriteStateFail
    \/ WriteStatsFail

SpecCrash == InitCrash /\ [][NextCrash]_vars

\* The run stopped after its first write and before its last one: it failed in
\* the second or the third write, or it is stopped where it stands.
BetweenWrites ==
    \/ pc \in {"writeState", "writeStats"}
    \/ pc = "exit1" /\ failedAt \in {"writeState", "writeStats"}

====
